---------------------------- MODULE Spec2Model ----------------------------
(***************************************************************************)
(* Model of main.py: the Hydra dispensing-log parser (parse_log) and the   *)
(* module-level script that aggregates the parsed cycles and writes the    *)
(* workbook.                                                               *)
(*                                                                         *)
(* Text is modelled as sequences of one-character strings, so that         *)
(* formatting (f-strings) and parsing (int, regular-expression groups) are *)
(* computed and not assumed.  A line of a log file is modelled by what the *)
(* four re.search calls of parse_log find in it: for each pattern either   *)
(* no match (<< >>) or the captured groups.                                *)
(***************************************************************************)
EXTENDS Integers, Sequences, FiniteSets, TLC

(***************************************************************************)
(* Bounds of the model.                                                    *)
(***************************************************************************)
\* lines of the one log file of a parser scenario
MaxLines == 3
\* log files in the working directory of an aggregation scenario
MaxFiles == 2
\* lines of all log files together, outside the parser scenarios
MaxToolLines == 4
\* output names Combined_Dispense_Log_<date>[_k].xlsx that may exist at start
MaxExisting == 2
\* back-to-back runs of the tool on the same date
MaxRuns == 2

(***************************************************************************)
(* Text helpers.                                                           *)
(***************************************************************************)
Digits == <<"0", "1", "2", "3", "4", "5", "6", "7", "8", "9">>

\* the value of one decimal digit character
DigitVal(c) == (CHOOSE i \in 1..10 : Digits[i] = c) - 1

IsDigit(c) == \E i \in 1..10 : Digits[i] = c

\* int(s) for a string of decimal digits (a \d+ group)
RECURSIVE IntOf(_)
IntOf(s) ==
    IF s = << >> THEN 0
    ELSE 10 * IntOf(SubSeq(s, 1, Len(s) - 1)) + DigitVal(s[Len(s)])

\* str(n) / f"{n}" for an integer n >= 0
RECURSIVE StrOf(_)
StrOf(n) ==
    IF n < 10 THEN << Digits[n + 1] >>
    ELSE StrOf(n \div 10) \o << Digits[(n % 10) + 1] >>

\* ", ".join(parts)
RECURSIVE Join(_)
Join(parts) ==
    IF parts = << >> THEN << >>
    ELSE IF Len(parts) = 1 THEN parts[1]
    ELSE parts[1] \o <<",", " ">> \o Join(Tail(parts))

\* f"{done/10:.1f}L": done is a non-negative integer, so done/10 has exactly
\* one decimal and the .1f format prints it without rounding
FormatLitre(done) ==
    StrOf(done \div 10) \o <<".">> \o StrOf(done % 10) \o <<"L">>

\* f"{done}/{need} dL"
FormatProgress(done, need) ==
    StrOf(done) \o <<"/">> \o StrOf(need) \o <<" ", "d", "L">>

(***************************************************************************)
(* ad_map and the Additives text of a timing line.                         *)
(***************************************************************************)
ad_map == <<
    <<"S">>,
    <<"P", "R">>,
    <<"T">>,
    <<"B", "r", "i", "n", "e">> >>

\* f"{ad_name}: {ms}ms"
AdditiveEntry(i, ms) ==
    ad_map[i] \o <<":", " ">> \o StrOf(ms) \o <<"m", "s">>

\* the loop over enumerate(ad_values, start=1): entries with ms > 0, in order
RECURSIVE additives_used(_, _)
additives_used(ad_values, i) ==
    IF i > Len(ad_values) THEN << >>
    ELSE (IF ad_values[i] > 0 THEN << AdditiveEntry(i, ad_values[i]) >> ELSE << >>)
         \o additives_used(ad_values, i + 1)

NoneText == <<"N", "o", "n", "e">>

\* AdditivesText without the else "None"
AdditivesText_NoNone(ad_values) == Join(additives_used(ad_values, 1))

\* ", ".join(additives_used) if additives_used else "None"
AdditivesText(ad_values) ==
    LET used == additives_used(ad_values, 1)
    IN  IF used # << >> THEN Join(used) ELSE NoneText

(***************************************************************************)
(* Lines of a log file.  A field is << >> when its pattern does not match  *)
(* the line and << groups >> when it does; blank is TRUE for a line that   *)
(* is empty after strip().                                                 *)
(***************************************************************************)
NoMatch == << >>

\* Start\s+TankDisp\s+RcpBtIdx=(\d+)\s+(H\d+)\s+Amnt=(\d+)dL, re.IGNORECASE.
\* recipe is group 2, an upper- or lower-case h and digits; tilde says whether
\* the line has a "~" and prefix is the text of the line before the first "~"
StartGroups ==
    { [recipe |-> <<"H", "7">>, tilde |-> TRUE,
       prefix |-> <<"1", "2", ":", "0", "0", " ">>],
      [recipe |-> <<"h", "1", "2">>, tilde |-> FALSE, prefix |-> << >>] }

\* Hydra=(\d+)ms.*Ad1=(\d+)ms.*Ad2=(\d+)ms.*Ad3=(\d+)ms.*Ad4=(\d+)ms
TimingGroups ==
    { [hydra |-> <<"9", "0", "0">>,
       ads |-> << <<"0">>, <<"0">>, <<"0">>, <<"0", "0">> >>],
      [hydra |-> <<"1", "2", "0", "0">>,
       ads |-> << <<"1", "0", "0">>, <<"0">>, <<"5", "0">>, <<"0">> >>],
      [hydra |-> <<"0">>,
       ads |-> << <<"0">>, <<"0", "7">>, <<"0">>, <<"9">> >>] }

\* Disp-Progress\s+Done=(\d+)dL\s+Need=(\d+)dL
ProgressGroups ==
    { [done |-> <<"4", "8">>, need |-> <<"5", "0">>],
      [done |-> <<"0", "5">>, need |-> <<"5", "0">>] }

\* TankDisp-End\s+Done=(\d+)dL\s+Ret=(\d+)
EndGroups ==
    { [done |-> <<"4", "8">>, ret |-> <<"0">>],
      [done |-> <<"5", "0">>, ret |-> <<"1">>] }

Line(b, s, t, p, e) ==
    [blank |-> b, start |-> s, timing |-> t, prog |-> p, end |-> e]

Some(S) == { <<x>> : x \in S }

First(S) == CHOOSE x \in S : TRUE

\* a line that is empty after strip()
BlankLine == Line(TRUE, NoMatch, NoMatch, NoMatch, NoMatch)

\* a line that no pattern matches
OtherLine == Line(FALSE, NoMatch, NoMatch, NoMatch, NoMatch)

\* lines that exactly one pattern matches
SingleLines ==
         { Line(FALSE, s, NoMatch, NoMatch, NoMatch) : s \in Some(StartGroups) }
    \cup { Line(FALSE, NoMatch, t, NoMatch, NoMatch) : t \in Some(TimingGroups) }
    \cup { Line(FALSE, NoMatch, NoMatch, p, NoMatch) : p \in Some(ProgressGroups) }
    \cup { Line(FALSE, NoMatch, NoMatch, NoMatch, e) : e \in Some(EndGroups) }

\* the searches are unanchored and independent, so one line can hold the
\* text of several patterns: every pair of patterns, one sample each
MultiLines ==
    { l \in { Line(FALSE, s, t, p, e) :
                s \in {NoMatch, << First(StartGroups) >>},
                t \in {NoMatch, << First(TimingGroups) >>},
                p \in {NoMatch, << First(ProgressGroups) >>},
                e \in {NoMatch, << First(EndGroups) >>} } :
        Len(l.start) + Len(l.timing) + Len(l.prog) + Len(l.end) = 2 }

Lines == {BlankLine, OtherLine} \cup SingleLines \cup MultiLines


(***************************************************************************)
(* The loop body of parse_log, one operator per numbered block.  current   *)
(* is << >> for the empty dict {} and a record otherwise.                  *)
(***************************************************************************)
EmptyDict == << >>

RECURSIVE LStrip(_)
LStrip(s) ==
    IF s # << >> /\ s[1] = " " THEN LStrip(Tail(s)) ELSE s

RECURSIVE RStrip(_)
RStrip(s) ==
    IF s # << >> /\ s[Len(s)] = " " THEN RStrip(SubSeq(s, 1, Len(s) - 1)) ELSE s

\* str.strip()
Strip(s) == LStrip(RStrip(s))

\* line.split("~")[0].strip() if "~" in line else ""
StartTime(m) == IF m.tilde THEN Strip(m.prefix) ELSE << >>

\* OnStart with "current.update(...)" of the three fields of the Start line
OnStart_Update(current, line, log_file) ==
    IF line.start # NoMatch /\ current # EmptyDict
    THEN [current EXCEPT !.LogFile = log_file,
                         !.StartTime = StartTime(line.start[1]),
                         !.RecipeIndex = line.start[1].recipe]
    ELSE IF line.start # NoMatch
    THEN [LogFile |-> log_file,
          StartTime |-> StartTime(line.start[1]),
          RecipeIndex |-> line.start[1].recipe,
          Hydra_ms |-> 0,
          Additives |-> << >>,
          Progress |-> << >>,
          Actual_Litre |-> << >>]
    ELSE current

\* block 1: a Start line replaces current by a fresh record
OnStart(current, line, log_file) ==
    IF line.start # NoMatch
    THEN [LogFile |-> log_file,
          StartTime |-> StartTime(line.start[1]),
          RecipeIndex |-> line.start[1].recipe,
          Hydra_ms |-> 0,
          Additives |-> << >>,
          Progress |-> << >>,
          Actual_Litre |-> << >>]
    ELSE current

\* OnTiming that keeps the values of the first timing line of the cycle
OnTiming_FirstWins(current, line) ==
    IF line.timing # NoMatch /\ current # EmptyDict /\ current.Additives = << >>
    THEN LET hydra_ms == IntOf(line.timing[1].hydra)
             ad_values == [i \in 1..4 |-> IntOf(line.timing[1].ads[i])]
         IN  [current EXCEPT !.Hydra_ms = hydra_ms,
                             !.Additives = AdditivesText(ad_values)]
    ELSE current

\* block 2: a timing line sets Hydra_ms and Additives of a non-empty current
OnTiming(current, line) ==
    IF line.timing # NoMatch /\ current # EmptyDict
    THEN LET hydra_ms == IntOf(line.timing[1].hydra)
             ad_values == [i \in 1..4 |-> IntOf(line.timing[1].ads[i])]
         IN  [current EXCEPT !.Hydra_ms = hydra_ms,
                             !.Additives = AdditivesText(ad_values)]
    ELSE current

\* OnProgress without the assignment to Actual_Litre
OnProgress_NoLitre(current, line) ==
    IF line.prog # NoMatch /\ current # EmptyDict
    THEN [current EXCEPT !.Progress = FormatProgress(IntOf(line.prog[1].done),
                                                     IntOf(line.prog[1].need))]
    ELSE current

\* block 3: a progress line sets Progress and Actual_Litre of a non-empty current
OnProgress(current, line) ==
    IF line.prog # NoMatch /\ current # EmptyDict
    THEN LET done == IntOf(line.prog[1].done)
             need == IntOf(line.prog[1].need)
         IN  [current EXCEPT !.Progress = FormatProgress(done, need),
                             !.Actual_Litre = FormatLitre(done)]
    ELSE current

\* block 4: does this line end the cycle held in current
EndsCycle(current, line) == line.end # NoMatch /\ current # EmptyDict

\* OnEnd without the test "if not current.get(...)"
OnEnd_Always(current, line) ==
    [current EXCEPT !.Actual_Litre = FormatLitre(IntOf(line.end[1].done))]

\* OnEnd that also fills an empty Progress from the End line
OnEnd_FillsProgress(current, line) ==
    LET done == IntOf(line.end[1].done)
        filled == IF current.Progress = << >>
                  THEN [current EXCEPT !.Progress = FormatProgress(done, done)]
                  ELSE current
    IN  IF current.Actual_Litre = << >>
        THEN [filled EXCEPT !.Actual_Litre = FormatLitre(done)]
        ELSE filled

\* block 4: the record appended by an End line
OnEnd(current, line) ==
    IF current.Actual_Litre = << >>
    THEN [current EXCEPT !.Actual_Litre = FormatLitre(IntOf(line.end[1].done))]
    ELSE current

(***************************************************************************)
(* The dicts of parse_log are objects: current names one of them and       *)
(* dispense_data lists some of them.  A store st has the objects made so   *)
(* far (heap), which one current names (ref) and which ones dispense_data  *)
(* lists (refs).  An assignment "current = {...}" makes a new object; an   *)
(* item assignment "current[...] = ..." changes the object in place.       *)
(***************************************************************************)
\* current = {} at the start of parse_log, dispense_data = []
NewStore == [heap |-> << EmptyDict >>, ref |-> 1, refs |-> << >>]

\* block 1: current = {...} binds current to a new object
StartBlock(st, line, log_file) ==
    IF line.start # NoMatch
    THEN [st EXCEPT !.heap = Append(st.heap, OnStart(st.heap[st.ref], line, log_file)),
                    !.ref = Len(st.heap) + 1]
    ELSE st

\* UpdateBlocks without the tests "and current", on a dict that has the defaults
UpdateBlocks_NoGuard(st, line) ==
    LET defaults == [LogFile |-> "", StartTime |-> << >>, RecipeIndex |-> << >>,
                     Hydra_ms |-> 0, Additives |-> << >>, Progress |-> << >>,
                     Actual_Litre |-> << >>]
    IN  IF st.heap[st.ref] = EmptyDict /\ (line.timing # NoMatch \/ line.prog # NoMatch)
        THEN [st EXCEPT !.heap[st.ref] = OnProgress(OnTiming(defaults, line), line)]
        ELSE [st EXCEPT !.heap[st.ref] = OnProgress(OnTiming(@, line), line)]

\* blocks 2 and 3: the item assignments change the object current names
UpdateBlocks(st, line) ==
    [st EXCEPT !.heap[st.ref] = OnProgress(OnTiming(@, line), line)]

\* EndBlock without "current = {}" after the append
EndBlock_NoReset(st, line) ==
    IF EndsCycle(st.heap[st.ref], line)
    THEN [st EXCEPT !.heap[st.ref] = OnEnd(@, line),
                    !.refs = Append(st.refs, st.ref)]
    ELSE st

\* block 4: the item assignment, dispense_data.append(current), current = {}
EndBlock(st, line) ==
    IF EndsCycle(st.heap[st.ref], line)
    THEN [heap |-> Append([st.heap EXCEPT ![st.ref] = OnEnd(@, line)], EmptyDict),
          ref |-> Len(st.heap) + 1,
          refs |-> Append(st.refs, st.ref)]
    ELSE st

\* Body with block 4 placed before block 1
Body_EndFirst(st, line, log_file) ==
    IF line.blank
    THEN st
    ELSE UpdateBlocks(StartBlock(EndBlock(st, line), line, log_file), line)

\* one pass of the loop body on the store
Body(st, line, log_file) ==
    IF line.blank
    THEN st
    ELSE EndBlock(UpdateBlocks(StartBlock(st, line, log_file), line), line)

\* parse_log on the first n lines of a file: the store after them
RECURSIVE parse_log(_, _, _)
parse_log(lines, n, log_file) ==
    IF n = 0 THEN NewStore
    ELSE Body(parse_log(lines, n - 1, log_file), lines[n], log_file)

\* the dict current names, and the dicts dispense_data lists
CurrentOf(st) == st.heap[st.ref]

DataOf(st) == [k \in 1..Len(st.refs) |-> st.heap[st.refs[k]]]

\* one pass of the loop body seen on values: current and dispense_data after
\* the line, when no listed dict is the one current names
LoopBody(current, dispense_data, line, log_file) ==
    LET st == [heap |-> Append(dispense_data, current),
               ref |-> Len(dispense_data) + 1,
               refs |-> [k \in 1..Len(dispense_data) |-> k]]
        after == Body(st, line, log_file)
    IN  [current |-> CurrentOf(after), dispense_data |-> DataOf(after)]

(***************************************************************************)
(* State.                                                                  *)
(***************************************************************************)
VARIABLES
    disk,             \* the log files of the working directory: name -> lines
    existing,         \* the output names that exist in the working directory
    pc,               \* where the script is
    files,            \* the list of discovered files
    fi,               \* how many files the for loop has taken
    pos,              \* how many lines parse_log has taken from its file
    store,            \* parse_log: its dicts, current and dispense_data
    all_data,         \* the cycles of all files
    individual_data,  \* name -> cycles of the files that have any, in order
    output_file,      \* the output name being tried, << >> before that
    counter,          \* the next suffix to try
    workbook,         \* the sheets written, << >> before that
    stdout,           \* what was printed
    exit_code,        \* the exit status, -1 while running
    run,              \* which run of the tool this is
    written,          \* the output names written by the runs so far
    before            \* the output names that existed when this run started

vars == << disk, existing, pc, files, fi, pos, store, all_data,
           individual_data, output_file, counter, workbook, stdout, exit_code,
           run, written, before >>

\* the locals of parse_log
current == CurrentOf(store)

dispense_data == DataOf(store)

(***************************************************************************)
(* Recipe frequencies.  A Series is a sequence of <<key, value>> pairs in  *)
(* index order.                                                            *)
(***************************************************************************)
\* code-point order of the characters of a recipe token
CharRank(c) == IF IsDigit(c) THEN DigitVal(c) ELSE IF c = "H" THEN 20 ELSE 30

\* a < b for two strings, as Python compares them
RECURSIVE StrLess(_, _)
StrLess(a, b) ==
    IF b = << >> THEN FALSE
    ELSE IF a = << >> THEN TRUE
    ELSE IF a[1] # b[1] THEN CharRank(a[1]) < CharRank(b[1])
    ELSE StrLess(Tail(a), Tail(b))

\* the keys of K in ascending order
RECURSIVE SortedKeys(_)
SortedKeys(K) ==
    IF K = {} THEN << >>
    ELSE LET m == CHOOSE x \in K : \A y \in K \ {x} : StrLess(x, y)
         IN  << m >> \o SortedKeys(K \ {m})

SeriesKeys(s) == { s[i][1] : i \in 1..Len(s) }

\* s.get(k, 0)
SeriesGet(s, k) ==
    IF k \in SeriesKeys(s)
    THEN (CHOOSE p \in { s[i] : i \in 1..Len(s) } : p[1] = k)[2]
    ELSE 0

\* file_df["RecipeIndex"].value_counts().sort_index()
value_counts(rows) ==
    LET keys == SortedKeys({ rows[i].RecipeIndex : i \in 1..Len(rows) })
    IN  [j \in 1..Len(keys) |->
            << keys[j],
               Cardinality({ i \in 1..Len(rows) : rows[i].RecipeIndex = keys[j] }) >>]

\* SeriesAdd without fill_value=0: a key that one side lacks gets no count
SeriesAdd_NoFill(a, b) ==
    LET keys == SortedKeys(SeriesKeys(a) \cup SeriesKeys(b))
    IN  [j \in 1..Len(keys) |->
            << keys[j],
               IF keys[j] \in SeriesKeys(a) \cap SeriesKeys(b)
               THEN SeriesGet(a, keys[j]) + SeriesGet(b, keys[j]) ELSE 0 >>]

\* a.add(b, fill_value=0)
SeriesAdd(a, b) ==
    LET keys == SortedKeys(SeriesKeys(a) \cup SeriesKeys(b))
    IN  [j \in 1..Len(keys) |->
            << keys[j], SeriesGet(a, keys[j]) + SeriesGet(b, keys[j]) >>]

\* combined_recipe_counts after the first n files of individual_data
RECURSIVE combined_recipe_counts(_, _)
combined_recipe_counts(data, n) ==
    IF n = 0 THEN << >>
    ELSE SeriesAdd(combined_recipe_counts(data, n - 1), value_counts(data[n].rows))

(***************************************************************************)
(* The workbook.                                                           *)
(***************************************************************************)
Columns == <<"LogFile", "StartTime", "RecipeIndex", "Hydra_ms", "Additives",
             "Progress", "Actual_Litre">>

\* sheet 1: the header row and one row per cycle of all_data
Dispense_Data(data) == [header |-> Columns, rows |-> data]

\* sheet 2: for each file of individual_data a title, a header row, its rows
Individual_Logs(data) ==
    [n \in 1..Len(data) |->
        [title |-> data[n].name, header |-> Columns, rows |-> data[n].rows]]

\* sheet 3: a titled Recipe/Count block per file of individual_data, then the
\* combined block
Usage_Charts(data) ==
    [blocks |->
        [n \in 1..Len(data) |->
            [title |-> data[n].name,
             header |-> <<"Recipe", "Count">>,
             rows |-> value_counts(data[n].rows),
             chart |-> data[n].name]],
     combined |->
        [title |-> "All Files Combined",
         header |-> <<"Recipe", "Total Count">>,
         rows |-> combined_recipe_counts(data, Len(data)),
         chart |-> "All Files Combined"]]

\* f"{base_name}.xlsx" for k = 0 and f"{base_name}_{k}.xlsx" after that, with
\* base_name = f"Combined_Dispense_Log_{today}"
OutputName(k) ==
    <<"Combined_Dispense_Log_", "today">>
    \o (IF k = 0 THEN << >> ELSE <<"_">> \o StrOf(k))
    \o <<".xlsx">>

(***************************************************************************)
(* Initial states: a working directory and the script about to start.      *)
(*   parser scenarios:      one log file of any lines, no earlier output;  *)
(*   aggregation scenarios: several log files of Start and End lines, no   *)
(*                          earlier output;                                *)
(*   naming scenarios:      at most one log file of Start and End lines,   *)
(*                          any earlier outputs.                           *)
(***************************************************************************)
SeqsUpTo(S, n) == UNION { [1..k -> S] : k \in 0..n }

AllNames == <<"A.TXT", "b.txt", "C.TXT", "d.txt">>

ToolLines ==
    { l \in SingleLines : l.start # NoMatch \/ l.end = << First(EndGroups) >> }

\* the directories holding some of the files names[1..n], with at most budget
\* lines of L in all
RECURSIVE DisksOf(_, _, _, _)
DisksOf(names, n, L, budget) ==
    IF n = 0 THEN { << >> }
    ELSE DisksOf(names, n - 1, L, budget)
         \cup UNION { { (names[n] :> c) @@ d :
                          d \in DisksOf(names, n - 1, L, budget - Len(c)) } :
                      c \in SeqsUpTo(L, budget) }

ParserDisks == [ {AllNames[1]} -> SeqsUpTo(Lines, MaxLines) ]

AggregationDisks == DisksOf(AllNames, MaxFiles, ToolLines, MaxToolLines)

NamingDisks == DisksOf(AllNames, 1, ToolLines, MaxToolLines)

Fresh ==
    /\ pc = "start"
    /\ files = << >>
    /\ fi = 0
    /\ pos = 0
    /\ store = NewStore
    /\ all_data = << >>
    /\ individual_data = << >>
    /\ output_file = << >>
    /\ counter = 0
    /\ workbook = << >>
    /\ stdout = << >>
    /\ exit_code = -1

Init ==
    /\ \/ disk \in ParserDisks \cup AggregationDisks /\ existing = {}
       \/ disk \in NamingDisks
          /\ existing \in SUBSET { OutputName(k) : k \in 0..(MaxExisting - 1) }
    /\ Fresh
    /\ run = 1
    /\ written = << >>
    /\ before = existing

(***************************************************************************)
(* The script.                                                             *)
(***************************************************************************)
\* the orders in which list(set(...)) can yield the names of S
Orders(S) ==
    { o \in [1..Cardinality(S) -> S] : \A i, j \in DOMAIN o : o[i] = o[j] => i = j }

\* files = list(set(glob.glob("*.TXT") + glob.glob("*.txt"))); print; the two
\* empty collections
Discover ==
    /\ pc = "start"
    /\ files' \in Orders(DOMAIN disk)
    /\ stdout' = Append(stdout, "Files found")
    /\ all_data' = << >>
    /\ individual_data' = << >>
    /\ pc' = "files"
    /\ UNCHANGED << disk, existing, fi, pos, store, output_file,
                    counter, workbook, exit_code, run, written, before >>

\* OpenLog with current kept from the file before (a module-level current)
OpenLog_KeepsCurrent ==
    /\ pc = "files"
    /\ fi < Len(files)
    /\ fi' = fi + 1
    /\ store' = [store EXCEPT !.refs = << >>]
    /\ pos' = 0
    /\ pc' = "read"
    /\ UNCHANGED << disk, existing, files, all_data, individual_data, output_file,
                    counter, workbook, stdout, exit_code, run, written, before >>

\* for file in files: parse_log(file) is entered and opens the file
OpenLog ==
    /\ pc = "files"
    /\ fi < Len(files)
    /\ fi' = fi + 1
    /\ store' = NewStore
    /\ pos' = 0
    /\ pc' = "read"
    /\ UNCHANGED << disk, existing, files, all_data, individual_data, output_file,
                    counter, workbook, stdout, exit_code, run, written, before >>

\* os.path.basename(log_file): glob yields names of the working directory
log_file == files[fi]

\* for line in f: one pass of the loop body
ReadLine ==
    /\ pc = "read"
    /\ pos < Len(disk[log_file])
    /\ pos' = pos + 1
    /\ store' = Body(store, disk[log_file][pos + 1], log_file)
    /\ UNCHANGED << disk, existing, pc, files, fi, all_data, individual_data,
                    output_file, counter, workbook, stdout, exit_code, run, written,
                    before >>

\* ReturnParsed with "individual_data = {name: df}": only the last file is kept
ReturnParsed_KeepsLast ==
    /\ pc = "read"
    /\ pos = Len(disk[log_file])
    /\ IF dispense_data # << >>
       THEN /\ all_data' = all_data \o dispense_data
            /\ individual_data' = << [name |-> log_file, rows |-> dispense_data] >>
       ELSE UNCHANGED << all_data, individual_data >>
    /\ pc' = "files"
    /\ UNCHANGED << disk, existing, files, fi, pos, store,
                    output_file, counter, workbook, stdout, exit_code, run, written,
                    before >>

\* ReturnParsed with the cycles of the file put in front of all_data
ReturnParsed_Prepends ==
    /\ pc = "read"
    /\ pos = Len(disk[log_file])
    /\ IF dispense_data # << >>
       THEN /\ all_data' = dispense_data \o all_data
            /\ individual_data' =
                   Append(individual_data, [name |-> log_file, rows |-> dispense_data])
       ELSE UNCHANGED << all_data, individual_data >>
    /\ pc' = "files"
    /\ UNCHANGED << disk, existing, files, fi, pos, store,
                    output_file, counter, workbook, stdout, exit_code, run, written,
                    before >>

\* return dispense_data; if parsed: all_data.extend(parsed) and
\* individual_data[basename] = DataFrame(parsed)
ReturnParsed ==
    /\ pc = "read"
    /\ pos = Len(disk[log_file])
    /\ IF dispense_data # << >>
       THEN /\ all_data' = all_data \o dispense_data
            /\ individual_data' =
                   Append(individual_data, [name |-> log_file, rows |-> dispense_data])
       ELSE UNCHANGED << all_data, individual_data >>
    /\ pc' = "files"
    /\ UNCHANGED << disk, existing, files, fi, pos, store,
                    output_file, counter, workbook, stdout, exit_code, run, written,
                    before >>

\* NoData without the exit(): the script goes on to the output name
NoData_FallsThrough ==
    /\ pc = "files"
    /\ fi = Len(files)
    /\ all_data = << >>
    /\ stdout' = Append(stdout, "No dispense data found in logs.")
    /\ output_file' = OutputName(0)
    /\ counter' = 1
    /\ pc' = "name"
    /\ UNCHANGED << disk, existing, files, fi, pos, store, all_data,
                    individual_data, workbook, exit_code, run, written, before >>

\* if not all_data: print the warning; exit()
NoData ==
    /\ pc = "files"
    /\ fi = Len(files)
    /\ all_data = << >>
    /\ stdout' = Append(stdout, "No dispense data found in logs.")
    /\ exit_code' = 0
    /\ pc' = "exited"
    /\ UNCHANGED << disk, existing, files, fi, pos, store, all_data,
                    individual_data, output_file, counter, workbook, run, written,
                    before >>

\* output_file = f"{base_name}.xlsx"; counter = 1
FirstName ==
    /\ pc = "files"
    /\ fi = Len(files)
    /\ all_data # << >>
    /\ output_file' = OutputName(0)
    /\ counter' = 1
    /\ pc' = "name"
    /\ UNCHANGED << disk, existing, files, fi, pos, store, all_data,
                    individual_data, workbook, stdout, exit_code, run, written,
                    before >>

\* NextName with the counter raised before the name is built
NextName_SkipsOne ==
    /\ pc = "name"
    /\ output_file \in existing
    /\ output_file' = OutputName(counter + 1)
    /\ counter' = counter + 2
    /\ UNCHANGED << disk, existing, pc, files, fi, pos, store,
                    all_data, individual_data, workbook, stdout, exit_code, run,
                    written, before >>

\* while os.path.exists(output_file): the next name
NextName ==
    /\ pc = "name"
    /\ output_file \in existing
    /\ output_file' = OutputName(counter)
    /\ counter' = counter + 1
    /\ UNCHANGED << disk, existing, pc, files, fi, pos, store,
                    all_data, individual_data, workbook, stdout, exit_code, run,
                    written, before >>

\* the while loop ends; the ExcelWriter block writes the three sheets and, on
\* leaving it, the file
WriteWorkbook ==
    /\ pc = "name"
    /\ output_file \notin existing
    /\ workbook' = [Dispense_Data |-> Dispense_Data(all_data),
                    Individual_Logs |-> Individual_Logs(individual_data),
                    Usage_Charts |-> Usage_Charts(individual_data)]
    /\ existing' = existing \cup {output_file}
    /\ written' = Append(written, output_file)
    /\ pc' = "written"
    /\ UNCHANGED << disk, files, fi, pos, store, all_data,
                    individual_data, output_file, counter, stdout, exit_code, run,
                    before >>

\* the completion summary; the script ends
Summary ==
    /\ pc = "written"
    /\ stdout' = Append(stdout, "Excel created successfully")
    /\ exit_code' = 0
    /\ pc' = "done"
    /\ UNCHANGED << disk, existing, files, fi, pos, store, all_data,
                    individual_data, output_file, counter, workbook, run, written,
                    before >>

\* after a run that wrote a workbook, the tool is run again in the same
\* directory on the same date
Rerun ==
    /\ pc = "done"
    /\ run < MaxRuns
    /\ run' = run + 1
    /\ before' = existing
    /\ pc' = "start"
    /\ files' = << >>
    /\ fi' = 0
    /\ pos' = 0
    /\ store' = NewStore
    /\ all_data' = << >>
    /\ individual_data' = << >>
    /\ output_file' = << >>
    /\ counter' = 0
    /\ workbook' = << >>
    /\ stdout' = << >>
    /\ exit_code' = -1
    /\ UNCHANGED << disk, existing, written >>

Next ==
    \/ Discover
    \/ OpenLog
    \/ ReadLine
    \/ ReturnParsed
    \/ NoData
    \/ FirstName
    \/ NextName
    \/ WriteWorkbook
    \/ Summary
    \/ Rerun

Spec == Init /\ [][Next]_vars

(***************************************************************************)
(* The events of a file, for stating the properties: what the patterns     *)
(* find, line by line, the events of one line in the order in which the    *)
(* loop body looks for them.                                               *)
(***************************************************************************)
LineEvents(line) ==
    IF line.blank THEN << >>
    ELSE (IF line.start # NoMatch
          THEN << [kind |-> "START", groups |-> line.start[1]] >> ELSE << >>)
      \o (IF line.timing # NoMatch
          THEN << [kind |-> "TIMING", groups |-> line.timing[1]] >> ELSE << >>)
      \o (IF line.prog # NoMatch
          THEN << [kind |-> "PROGRESS", groups |-> line.prog[1]] >> ELSE << >>)
      \o (IF line.end # NoMatch
          THEN << [kind |-> "END", groups |-> line.end[1]] >> ELSE << >>)

RECURSIVE Events(_)
Events(lines) ==
    IF lines = << >> THEN << >>
    ELSE Events(SubSeq(lines, 1, Len(lines) - 1)) \o LineEvents(lines[Len(lines)])

\* event i is an End event with a Start event before it and no End event
\* between that Start and it
CompletesCycle(ev, i) ==
    /\ ev[i].kind = "END"
    /\ \E j \in 1..(i - 1) :
          /\ ev[j].kind = "START"
          /\ \A k \in (j + 1)..(i - 1) : ev[k].kind # "END"

\* the positions of the End events that complete a cycle, in order
CycleEnds(ev) ==
    LET Completes(i) == CompletesCycle(ev, i)
    IN  SelectSeq([i \in 1..Len(ev) |-> i], Completes)

Max(S) == CHOOSE x \in S : \A y \in S : y <= x

\* the last Start event before event e
CycleStart(ev, e) == Max({ j \in 1..(e - 1) : ev[j].kind = "START" })

\* the events of the given kind between the last Start before e and e
CycleEvents(ev, e, kind) ==
    { j \in (CycleStart(ev, e) + 1)..(e - 1) : ev[j].kind = kind }

\* the lines parse_log has taken from its file so far
LinesRead == SubSeq(disk[log_file], 1, pos)

\* P(cycle, ev, e) for every cycle that parse_log has emitted, in the file
\* being read and, when parse_log has returned, in the files parsed so far;
\* ev are the events of the file (so far) and e the position of the End event
\* that completed the cycle
Emitted(P(_, _, _)) ==
    /\ pc = "read" =>
          LET ev == Events(LinesRead)
              ends == CycleEnds(ev)
          IN  \A k \in 1..Len(dispense_data) :
                 k <= Len(ends) => P(dispense_data[k], ev, ends[k])
    /\ pc = "files" =>
       \A n \in 1..Len(individual_data) :
          LET ev == Events(disk[individual_data[n].name])
              ends == CycleEnds(ev)
          IN  \A k \in 1..Len(individual_data[n].rows) :
                 k <= Len(ends) => P(individual_data[n].rows[k], ev, ends[k])

(***************************************************************************)
(* C1: the number of cycles parse_log returns for a file is the number of  *)
(* End events of the file that were preceded, since the previous End event *)
(* or the start of the file, by at least one Start event.  It holds after  *)
(* every line, so also at the return.                                      *)
(***************************************************************************)
C1_CycleCount ==
    /\ pc = "read" => Len(dispense_data) = Len(CycleEnds(Events(LinesRead)))
    /\ pc = "files" =>
       \A n \in 1..Len(individual_data) :
          Len(individual_data[n].rows) =
              Len(CycleEnds(Events(disk[individual_data[n].name])))

\* a file was parsed to its end and has an End event that completed a cycle
\* and an End event that did not
C1_Witness ==
    /\ pc = "read"
    /\ pos = Len(disk[log_file])
    /\ Len(dispense_data) = 1
    /\ LET ev == Events(disk[log_file])
       IN  Cardinality({ i \in 1..Len(ev) : ev[i].kind = "END" }) = 2

(***************************************************************************)
(* Reading the text fields back, for stating the properties.               *)
(***************************************************************************)
\* the first position at which sep occurs in s, 0 if it does not
IndexOf(s, sep) ==
    LET at == { i \in 1..(Len(s) - Len(sep) + 1) :
                  SubSeq(s, i, i + Len(sep) - 1) = sep }
    IN  IF at = {} THEN 0 ELSE CHOOSE i \in at : \A j \in at : i <= j

\* s.split(sep)
RECURSIVE Split(_, _)
Split(s, sep) ==
    LET i == IndexOf(s, sep)
    IN  IF i = 0 THEN << s >>
        ELSE << SubSeq(s, 1, i - 1) >> \o Split(SubSeq(s, i + Len(sep), Len(s)), sep)

IsNumber(s) == s # << >> /\ \A i \in 1..Len(s) : IsDigit(s[i])

\* the entries of an Additives text as <<name, ms>> pairs; << >> if the text
\* is not a list of "<name>: <ms>ms" entries joined by ", "
Listed(text) ==
    LET parts == Split(text, <<",", " ">>)
        Halves(p) == Split(p, <<":", " ">>)
        WellFormed(p) ==
            /\ Len(Halves(p)) = 2
            /\ Len(Halves(p)[2]) > 2
            /\ SubSeq(Halves(p)[2], Len(Halves(p)[2]) - 1, Len(Halves(p)[2])) = <<"m", "s">>
            /\ IsNumber(SubSeq(Halves(p)[2], 1, Len(Halves(p)[2]) - 2))
    IN  IF \A n \in 1..Len(parts) : WellFormed(parts[n])
        THEN [n \in 1..Len(parts) |->
                << Halves(parts[n])[1],
                   IntOf(SubSeq(Halves(parts[n])[2], 1, Len(Halves(parts[n])[2]) - 2)) >>]
        ELSE << >>

\* the first integer of a Progress text, -1 if it does not start with one
FirstInteger(text) ==
    LET i == IndexOf(text, <<"/">>)
    IN  IF i > 1 /\ IsNumber(SubSeq(text, 1, i - 1))
        THEN IntOf(SubSeq(text, 1, i - 1)) ELSE -1

\* the tenths of a litre that an Actual_Litre text "<whole>.<digit>L" states,
\* -1 if the text is not of that form
LitreTenths(text) ==
    LET n == Len(text)
    IN  IF /\ n >= 4
           /\ text[n] = "L"
           /\ IsDigit(text[n - 1])
           /\ text[n - 2] = "."
           /\ IsNumber(SubSeq(text, 1, n - 3))
           /\ (n = 4 \/ text[1] # "0")
        THEN 10 * IntOf(SubSeq(text, 1, n - 3)) + DigitVal(text[n - 1])
        ELSE -1

(***************************************************************************)
(* C2: for every emitted cycle, Additives is "None" iff the cycle saw a    *)
(* timing event whose four Ad values are all zero; it is empty iff the     *)
(* cycle saw no timing event; otherwise it lists, in the order Ad1..Ad4,   *)
(* exactly the additives whose ms is greater than 0.  The timing event of  *)
(* a cycle that saw several is the last one.                               *)
(***************************************************************************)
C2_Additives_Of(cycle, ev, e) ==
    LET timings == CycleEvents(ev, e, "TIMING")
        ads == [i \in 1..4 |-> IntOf(ev[Max(timings)].groups.ads[i])]
        nonzero == SelectSeq([i \in 1..4 |-> << ad_map[i], ads[i] >>],
                             LAMBDA entry : entry[2] > 0)
    IN  /\ cycle.Additives = NoneText <=>
              (timings # {} /\ \A i \in 1..4 : ads[i] = 0)
        /\ cycle.Additives = << >> <=> timings = {}
        /\ (timings # {} /\ \E i \in 1..4 : ads[i] > 0) =>
              Listed(cycle.Additives) = nonzero

C2_Additives == Emitted(C2_Additives_Of)

\* a cycle was emitted whose timing event has two additives above zero, and
\* its Additives lists the two
C2_Witness ==
    /\ pc = "read"
    /\ \E k \in 1..Len(dispense_data) :
          /\ Len(Listed(dispense_data[k].Additives)) = 2
          /\ Listed(dispense_data[k].Additives)[1][1] = ad_map[1]
          /\ Listed(dispense_data[k].Additives)[2][1] = ad_map[3]

(***************************************************************************)
(* C3: for every emitted cycle whose Progress is not empty, the number in  *)
(* Actual_Litre is done/10 with one decimal, where done is the first       *)
(* integer of Progress: both fields come from the same progress event, the *)
(* last one of the cycle.                                                  *)
(***************************************************************************)
C3_LitreOfProgress_Of(cycle, ev, e) ==
    cycle.Progress # << >> =>
        LET progs == CycleEvents(ev, e, "PROGRESS")
        IN  /\ FirstInteger(cycle.Progress) >= 0
            /\ LitreTenths(cycle.Actual_Litre) = FirstInteger(cycle.Progress)
            /\ progs # {}
            /\ FirstInteger(cycle.Progress) = IntOf(ev[Max(progs)].groups.done)

C3_LitreOfProgress == Emitted(C3_LitreOfProgress_Of)

\* a cycle was emitted with a Progress of 48 dL done by an End event that
\* reports 50 dL done
C3_Witness ==
    /\ pc = "read"
    /\ pos > 0
    /\ disk[log_file][pos].end # NoMatch
    /\ \E k \in 1..Len(dispense_data) :
          /\ k = Len(dispense_data)
          /\ FirstInteger(dispense_data[k].Progress) = 48
          /\ IntOf(disk[log_file][pos].end[1].done) = 50

(***************************************************************************)
(* C4: an End event sets Actual_Litre from its own done only when the      *)
(* cycle saw no progress event.  A cycle without a progress event is       *)
(* emitted with Progress empty and Actual_Litre stating the done/10 of the *)
(* End event; a cycle with a progress event keeps the Actual_Litre of its  *)
(* last progress event, whatever done the End event reports.               *)
(***************************************************************************)
C4_LitreOfEnd_Of(cycle, ev, e) ==
    LET progs == CycleEvents(ev, e, "PROGRESS")
    IN  /\ progs = {} =>
              /\ cycle.Progress = << >>
              /\ LitreTenths(cycle.Actual_Litre) = IntOf(ev[e].groups.done)
        /\ progs # {} =>
              LitreTenths(cycle.Actual_Litre) = IntOf(ev[Max(progs)].groups.done)

C4_LitreOfEnd == Emitted(C4_LitreOfEnd_Of)

\* a cycle without a progress event was emitted by an End event that reports
\* 50 dL done, and says 5.0L
C4_Witness ==
    /\ pc = "read"
    /\ pos > 0
    /\ disk[log_file][pos].end # NoMatch
    /\ dispense_data # << >>
    /\ dispense_data[Len(dispense_data)].Progress = << >>
    /\ dispense_data[Len(dispense_data)].Actual_Litre = <<"5", ".", "0", "L">>
    /\ IntOf(disk[log_file][pos].end[1].done) = 50

(***************************************************************************)
(* C5: for every emitted cycle, RecipeIndex matches ^H\d+$ and Hydra_ms is *)
(* at least 0.                                                             *)
(***************************************************************************)
\* ^H\d+$
MatchesRecipe(text) ==
    /\ Len(text) >= 2
    /\ text[1] = "H"
    /\ IsNumber(Tail(text))

C5_RecipeAndHydra_Of(cycle, ev, e) ==
    /\ MatchesRecipe(cycle.RecipeIndex)
    /\ cycle.Hydra_ms >= 0

C5_RecipeAndHydra == Emitted(C5_RecipeAndHydra_Of)

(***************************************************************************)
(* C6: a line produces at most one of the four events: what one pass of    *)
(* the loop body does to current and dispense_data is what it would do for *)
(* a line that holds one of the line's events alone, or none.              *)
(***************************************************************************)
OnlyEvent(line, kind) ==
    Line(line.blank,
         IF kind = "START" THEN line.start ELSE NoMatch,
         IF kind = "TIMING" THEN line.timing ELSE NoMatch,
         IF kind = "PROGRESS" THEN line.prog ELSE NoMatch,
         IF kind = "END" THEN line.end ELSE NoMatch)

C6_OneEventPerLine ==
    [][pc = "read" /\ pos' = pos + 1 =>
          \E kind \in {"START", "TIMING", "PROGRESS", "END", "none"} :
             LET one == LoopBody(current, dispense_data,
                                 OnlyEvent(disk[log_file][pos + 1], kind), log_file)
             IN  /\ current' = one.current
                 /\ dispense_data' = one.dispense_data]_vars

(***************************************************************************)
(* C7: the exit code is 0 when a workbook was written and not 0 when no    *)
(* cycles were produced.                                                   *)
(***************************************************************************)
C7_ExitCode ==
    /\ pc = "done" => exit_code = 0
    /\ pc = "exited" => exit_code # 0

(***************************************************************************)
(* C8: the loop that selects the output name ends, after at most as many   *)
(* passes as there are existing names, with the first name of the sequence *)
(* Combined_Dispense_Log_<date>.xlsx, ..._1.xlsx, ..._2.xlsx, ... that     *)
(* does not exist; a name that exists is never written, and the names      *)
(* written by back-to-back runs on one date are distinct names of that     *)
(* sequence.                                                               *)
(***************************************************************************)
C8_FirstFreeName ==
    /\ pc = "name" =>
          /\ counter >= 1
          /\ counter <= Cardinality(existing) + 1
          /\ output_file = OutputName(counter - 1)
          /\ \A j \in 0..(counter - 2) : OutputName(j) \in existing
    /\ pc \in {"written", "done"} =>
          /\ output_file \notin before
          /\ \E k \in 0..Cardinality(before) :
                /\ output_file = OutputName(k)
                /\ \A j \in 0..(k - 1) : OutputName(j) \in before
    /\ \A i, j \in 1..Len(written) : written[i] = written[j] => i = j
    /\ \A i \in 1..Len(written) :
          \E k \in 0..Cardinality(existing) : written[i] = OutputName(k)

\* two runs wrote a workbook each: the first found the unsuffixed name taken
\* and wrote _1, the second found both taken and wrote _2
C8_Witness ==
    /\ pc = "done"
    /\ run = 2
    /\ written = << OutputName(1), OutputName(2) >>

(***************************************************************************)
(* C9: when no file holds a completed cycle (also when there is no file),  *)
(* the tool prints the warning and ends before it selects an output name   *)
(* or writes a workbook: the files of the working directory are the ones   *)
(* that were there when the run started.                                   *)
(***************************************************************************)
NoCycles == \A f \in DOMAIN disk : CycleEnds(Events(disk[f])) = << >>

C9_NoWorkbook ==
    /\ pc \in {"name", "written", "done"} => ~NoCycles
    /\ pc = "exited" =>
          /\ NoCycles
          /\ stdout[Len(stdout)] = "No dispense data found in logs."
          /\ output_file = << >>
          /\ counter = 0
          /\ workbook = << >>
          /\ existing = before

\* the tool ended early on a file that starts a cycle and never ends it,
\* next to an earlier workbook
C9_Witness ==
    /\ pc = "exited"
    /\ existing # {}
    /\ \E f \in DOMAIN disk :
          \E i \in 1..Len(disk[f]) : disk[f][i].start # NoMatch

(***************************************************************************)
(* C10: for every recipe, its counts in the per-file tables sum to its     *)
(* count in the combined table; the keys of the combined table are the     *)
(* keys of the per-file tables; and the counts of the combined table sum   *)
(* to the number of cycles of Dispense_Data.                               *)
(***************************************************************************)
RECURSIVE SumOf(_)
SumOf(numbers) ==
    IF numbers = << >> THEN 0 ELSE numbers[1] + SumOf(Tail(numbers))

\* the count of recipe r in a table of <<recipe, count>> rows
CountOf(rows, r) ==
    SumOf([i \in 1..Len(rows) |-> IF rows[i][1] = r THEN rows[i][2] ELSE 0])

C10_CombinedCounts ==
    pc \in {"written", "done"} =>
        LET blocks == workbook.Usage_Charts.blocks
            combined == workbook.Usage_Charts.combined.rows
            keys == UNION { SeriesKeys(blocks[n].rows) : n \in 1..Len(blocks) }
        IN  /\ SeriesKeys(combined) = keys
            /\ Len(combined) = Cardinality(keys)
            /\ \A r \in keys :
                  CountOf(combined, r) =
                      SumOf([n \in 1..Len(blocks) |-> CountOf(blocks[n].rows, r)])
            /\ SumOf([i \in 1..Len(combined) |-> combined[i][2]]) =
                  Len(workbook.Dispense_Data.rows)

\* a workbook was written for two files with one cycle each, of the same
\* recipe: the combined table counts it twice
C10_Witness ==
    /\ pc = "done"
    /\ Len(workbook.Usage_Charts.blocks) = 2
    /\ workbook.Usage_Charts.combined.rows = << << <<"H", "7">>, 2 >> >>

(***************************************************************************)
(* C11: whenever a workbook is written, every discovered input file has a  *)
(* section in Individual_Logs and a titled Recipe/Count block in           *)
(* Usage_Charts.                                                           *)
(***************************************************************************)
C11_EveryFile ==
    pc \in {"written", "done"} =>
       \A i \in 1..Len(files) :
          /\ \E n \in 1..Len(workbook.Individual_Logs) :
                workbook.Individual_Logs[n].title = files[i]
          /\ \E n \in 1..Len(workbook.Usage_Charts.blocks) :
                workbook.Usage_Charts.blocks[n].title = files[i]

\* the discovered files that have a completed cycle, in the order of files
FilesWithCycles ==
    SelectSeq(files, LAMBDA f : CycleEnds(Events(disk[f])) # << >>)

(***************************************************************************)
(* C11 as the code has it: the sections of Individual_Logs and the blocks  *)
(* of Usage_Charts are, in the order of iteration, those of the discovered *)
(* files with at least one completed cycle; each section has the title,    *)
(* the header row and the file's cycles, each block the title and the      *)
(* Recipe/Count header.  A file without a completed cycle has neither.     *)
(***************************************************************************)
C11_FilesWithCycles ==
    pc \in {"written", "done"} =>
       LET sections == workbook.Individual_Logs
           blocks == workbook.Usage_Charts.blocks
       IN  /\ Len(sections) = Len(FilesWithCycles)
           /\ Len(blocks) = Len(FilesWithCycles)
           /\ \A n \in 1..Len(FilesWithCycles) :
                 /\ sections[n].title = FilesWithCycles[n]
                 /\ sections[n].header = Columns
                 /\ sections[n].rows =
                       SelectSeq(workbook.Dispense_Data.rows,
                                 LAMBDA row : row.LogFile = FilesWithCycles[n])
                 /\ Len(sections[n].rows) =
                       Len(CycleEnds(Events(disk[FilesWithCycles[n]])))
                 /\ blocks[n].title = FilesWithCycles[n]
                 /\ blocks[n].header = <<"Recipe", "Count">>
                 /\ SumOf([i \in 1..Len(blocks[n].rows) |-> blocks[n].rows[i][2]])
                       = Len(sections[n].rows)

\* a workbook written from two files of which only the second has a cycle
C11_Witness ==
    /\ pc = "written"
    /\ Len(files) = 2
    /\ CycleEnds(Events(disk[files[1]])) = << >>
    /\ Len(workbook.Individual_Logs) = 1
    /\ workbook.Individual_Logs[1].title = files[2]

\* the lines read so far that match the End pattern
EndLinesRead ==
    { i \in 1..pos : ~disk[log_file][i].blank /\ disk[log_file][i].end # NoMatch }

(***************************************************************************)
(* C12: every End event observed in a file emits exactly one cycle (the    *)
(* output length equals the number of lines matching the End pattern),     *)
(* and no cycle is emitted without an End event.                           *)
(***************************************************************************)
C12_OnePerEndLine ==
    pc = "read" => Len(dispense_data) = Cardinality(EndLinesRead)

(***************************************************************************)
(* C12 as the code has it: a line emits exactly one cycle when it has an   *)
(* End event that is preceded by a Start event since the previous End      *)
(* event, and emits nothing otherwise; so no cycle is emitted without an   *)
(* End event and the output is never longer than the number of lines       *)
(* matching the End pattern.                                               *)
(***************************************************************************)
C12_OnePerEndInProgress ==
    [][(pc = "read" /\ pos' = pos + 1) =>
          LET ev == Events(SubSeq(disk[log_file], 1, pos + 1))
              line == disk[log_file][pos + 1]
              completes == /\ ~line.blank
                           /\ line.end # NoMatch
                           /\ CompletesCycle(ev, Len(ev))
          IN  /\ Len(dispense_data') =
                    Len(dispense_data) + (IF completes THEN 1 ELSE 0)
              /\ Len(dispense_data') <= Cardinality(EndLinesRead')]_vars

\* three lines were read: the first has an End event and no Start event and
\* emitted nothing, a later End event emitted a cycle
C12_Witness ==
    /\ pc = "read"
    /\ pos = 3
    /\ disk[log_file][1].end # NoMatch
    /\ disk[log_file][1].start = NoMatch
    /\ disk[log_file][3].end # NoMatch
    /\ Len(dispense_data) = 1

\* t is s without its leading and trailing spaces
IsTrimOf(t, s) ==
    /\ t # << >> => t[1] # " " /\ t[Len(t)] # " "
    /\ \E i \in 0..Len(s) :
          /\ i + Len(t) <= Len(s)
          /\ SubSeq(s, i + 1, i + Len(t)) = t
          /\ \A k \in (1..i) \cup ((i + Len(t) + 1)..Len(s)) : s[k] = " "

(***************************************************************************)
(* C13: a Start event while a cycle is in progress discards that cycle and *)
(* begins a new one with the defaults.  The cycle emitted by the next End  *)
(* event has the RecipeIndex and the StartTime of the most recent Start    *)
(* event, and nothing of a timing or progress event from before that Start *)
(* event: without a timing event after it Hydra_ms is 0 and Additives is   *)
(* empty, without a progress event after it Progress is empty and          *)
(* Actual_Litre is that of the End event.  The earlier cycle is never      *)
(* emitted: the k-th emitted cycle belongs to the k-th completing End.     *)
(***************************************************************************)
C13_RestartDiscards_Of(cycle, ev, e) ==
    LET start == ev[CycleStart(ev, e)].groups
    IN  /\ cycle.RecipeIndex = start.recipe
        /\ IF start.tilde
           THEN IsTrimOf(cycle.StartTime, start.prefix)
           ELSE cycle.StartTime = << >>
        /\ CycleEvents(ev, e, "TIMING") = {} =>
              cycle.Hydra_ms = 0 /\ cycle.Additives = << >>
        /\ CycleEvents(ev, e, "PROGRESS") = {} =>
              /\ cycle.Progress = << >>
              /\ LitreTenths(cycle.Actual_Litre) = IntOf(ev[e].groups.done)

C13_RestartDiscards ==
    /\ [](Emitted(C13_RestartDiscards_Of))
    /\ [](pc = "read" =>
             LET ev == Events(LinesRead)
             IN  /\ Len(dispense_data) = Len(CycleEnds(ev))
                 /\ (ev # << >> /\ ev[Len(ev)].kind = "START") =>
                       /\ current.RecipeIndex = ev[Len(ev)].groups.recipe
                       /\ current.Hydra_ms = 0
                       /\ current.Additives = << >>
                       /\ current.Progress = << >>
                       /\ current.Actual_Litre = << >>)

\* a Start event and a timing event, then a Start event with another recipe,
\* then the End event: the emitted cycle is the second one, with no Additives
C13_Witness ==
    /\ pc = "read"
    /\ Len(dispense_data) = 1
    /\ dispense_data[1].Additives = << >>
    /\ LET ev == Events(LinesRead)
       IN  /\ Len(ev) = 4
           /\ ev[1].kind = "START"
           /\ ev[2].kind = "TIMING"
           /\ ev[3].kind = "START"
           /\ ev[4].kind = "END"
           /\ ev[3].groups.recipe # ev[1].groups.recipe
           /\ dispense_data[1].RecipeIndex = ev[3].groups.recipe

\* the integer between "/" and " dL" of a Progress text, -1 if there is none
NeedInteger(text) ==
    LET i == IndexOf(text, <<"/">>)
        n == Len(text)
    IN  IF /\ i > 0
           /\ n >= i + 4
           /\ SubSeq(text, n - 2, n) = <<" ", "d", "L">>
           /\ IsNumber(SubSeq(text, i + 1, n - 3))
        THEN IntOf(SubSeq(text, i + 1, n - 3)) ELSE -1

(***************************************************************************)
(* C14: several timing or progress events in one cycle are last-writer-    *)
(* wins.  Hydra_ms and Additives of an emitted cycle are those of the last *)
(* timing event between the cycle's most recent Start event and its End    *)
(* event (0 and empty if there was none); Progress is that of the last     *)
(* progress event of the same interval (empty if there was none).          *)
(***************************************************************************)
C14_LastWriterWins_Of(cycle, ev, e) ==
    LET timings == CycleEvents(ev, e, "TIMING")
        progresses == CycleEvents(ev, e, "PROGRESS")
    IN  /\ IF timings = {}
           THEN cycle.Hydra_ms = 0 /\ cycle.Additives = << >>
           ELSE LET last == ev[Max(timings)].groups
                    ms == [i \in 1..4 |-> IntOf(last.ads[i])]
                    listed == Listed(cycle.Additives)
                IN  /\ cycle.Hydra_ms = IntOf(last.hydra)
                    /\ cycle.Additives # << >>
                    /\ [n \in 1..Len(listed) |-> listed[n][2]] =
                          SelectSeq(ms, LAMBDA v : v > 0)
        /\ IF progresses = {}
           THEN cycle.Progress = << >>
           ELSE LET last == ev[Max(progresses)].groups
                IN  /\ FirstInteger(cycle.Progress) = IntOf(last.done)
                    /\ NeedInteger(cycle.Progress) = IntOf(last.need)

C14_LastWriterWins == Emitted(C14_LastWriterWins_Of)

\* a cycle with two timing events of different Hydra values was emitted with
\* the value of the second
C14_Witness ==
    /\ pc = "read"
    /\ Len(dispense_data) = 1
    /\ LET ev == Events(LinesRead)
       IN  /\ Len(ev) = 4
           /\ ev[1].kind = "START"
           /\ ev[2].kind = "TIMING"
           /\ ev[3].kind = "TIMING"
           /\ ev[4].kind = "END"
           /\ IntOf(ev[2].groups.hydra) # IntOf(ev[3].groups.hydra)
           /\ dispense_data[1].Hydra_ms = IntOf(ev[3].groups.hydra)

\* a cycle with two progress events of different Done values was emitted with
\* the value of the second
C14_WitnessProgress ==
    /\ pc = "read"
    /\ Len(dispense_data) = 1
    /\ LET ev == Events(LinesRead)
       IN  /\ Len(ev) = 4
           /\ ev[2].kind = "PROGRESS"
           /\ ev[3].kind = "PROGRESS"
           /\ IntOf(ev[2].groups.done) # IntOf(ev[3].groups.done)
           /\ FirstInteger(dispense_data[1].Progress) = IntOf(ev[3].groups.done)

\* no cycle is in progress after the events ev: every Start event is followed
\* by an End event
Idle(ev) ==
    \A j \in 1..Len(ev) :
       ev[j].kind = "START" => \E k \in (j + 1)..Len(ev) : ev[k].kind = "END"

\* line i of lines has no Start event and comes while no cycle is in progress
IdleLine(lines, i) ==
    /\ lines[i].start = NoMatch
    /\ Idle(Events(SubSeq(lines, 1, i - 1)))

\* lines without its first n lines that are idle lines
RECURSIVE WithoutIdleLines(_, _)
WithoutIdleLines(lines, n) ==
    IF n = 0 THEN << >>
    ELSE WithoutIdleLines(lines, n - 1)
            \o (IF IdleLine(lines, n) THEN << >> ELSE << lines[n] >>)

(***************************************************************************)
(* C15: in the Idle state, which is the state before the first Start event *)
(* of a file and after each End event until the next Start event, timing,  *)
(* progress and End events are ignored: current stays empty and the output *)
(* list is unchanged, and the values of those events appear in no emitted  *)
(* cycle, the result of the file being that of the file without them.      *)
(***************************************************************************)
C15_IdleIgnores ==
    /\ [](pc = "read" => (current = EmptyDict <=> Idle(Events(LinesRead))))
    /\ [][(/\ pc = "read"
           /\ pos' = pos + 1
           /\ current = EmptyDict
           /\ disk[log_file][pos + 1].start = NoMatch) =>
              /\ current' = EmptyDict
              /\ dispense_data' = dispense_data]_vars
    /\ [](pc = "read" =>
             dispense_data =
                DataOf(parse_log(WithoutIdleLines(LinesRead, pos),
                                 Len(WithoutIdleLines(LinesRead, pos)), log_file)))

\* a timing line was read before the first Start event; the cycle emitted
\* afterwards has nothing of it
C15_Witness ==
    /\ pc = "read"
    /\ pos = 3
    /\ disk[log_file][1].timing # NoMatch
    /\ disk[log_file][1].start = NoMatch
    /\ Len(dispense_data) = 1
    /\ dispense_data[1].Additives = << >>
    /\ dispense_data[1].Hydra_ms = 0

\* the number of cycles completed by an End event in the first n files
RECURSIVE CompletedIn(_)
CompletedIn(n) ==
    IF n = 0 THEN 0
    ELSE CompletedIn(n - 1) + Len(CycleEnds(Events(disk[files[n]])))

(***************************************************************************)
(* C16: a cycle that is in progress when the end of its file is reached is *)
(* dropped.  The result of parse_log has only the cycles completed by an   *)
(* End event of that file, and the parsing of the next file starts with no *)
(* cycle in progress and an empty output list, so an End event at the      *)
(* start of the next file completes nothing.                               *)
(***************************************************************************)
C16_DroppedAtEndOfFile ==
    /\ [](pc = "files" =>
             /\ Len(all_data) = CompletedIn(fi)
             /\ \A i \in 1..fi :
                   Len(SelectSeq(all_data, LAMBDA row : row.LogFile = files[i])) =
                      Len(CycleEnds(Events(disk[files[i]]))))
    /\ [][(pc = "files" /\ pc' = "read") =>
              current' = EmptyDict /\ dispense_data' = << >>]_vars
    /\ [][(pc = "read" /\ pc' = "files") =>
              /\ Len(dispense_data) = Len(CycleEnds(Events(disk[log_file])))
              /\ all_data' = all_data \o dispense_data]_vars

\* the first file ended with a cycle in progress, the second file starts with
\* an End event, and the only cycle is the one the first file completed
C16_Witness ==
    /\ pc = "files"
    /\ fi = 2
    /\ ~Idle(Events(disk[files[1]]))
    /\ Events(disk[files[2]]) # << >>
    /\ Events(disk[files[2]])[1].kind = "END"
    /\ Len(all_data) = 1
    /\ all_data[1].LogFile = files[1]

\* what tells the cycles of file f apart, in the order of the End events that
\* completed them: the file, the recipe of the cycle's Start event and the
\* Done value of its last progress event or else of its End event
KeysOfFile(f) ==
    LET ev == Events(disk[f])
        ends == CycleEnds(ev)
        Done(e) == IF CycleEvents(ev, e, "PROGRESS") = {}
                   THEN IntOf(ev[e].groups.done)
                   ELSE IntOf(ev[Max(CycleEvents(ev, e, "PROGRESS"))].groups.done)
    IN  [k \in 1..Len(ends) |->
            << f, ev[CycleStart(ev, ends[k])].groups.recipe, Done(ends[k]) >>]

\* the keys of the first n files, file after file
RECURSIVE KeysOfFiles(_)
KeysOfFiles(n) ==
    IF n = 0 THEN << >> ELSE KeysOfFiles(n - 1) \o KeysOfFile(files[n])

\* the rows of the first n entries of individual_data, entry after entry
RECURSIVE RowsOfEntries(_)
RowsOfEntries(n) ==
    IF n = 0 THEN << >> ELSE RowsOfEntries(n - 1) \o individual_data[n].rows

(***************************************************************************)
(* C17: the flat cycle sequence is the concatenation of the per-file cycle *)
(* lists in the order the files are iterated; within a file the cycles are *)
(* in the order of the End events that completed them; cycles of different *)
(* files are never interleaved.                                            *)
(***************************************************************************)
C17_Concatenation ==
    [](pc \in {"files", "name", "written", "done"} =>
          /\ all_data = RowsOfEntries(Len(individual_data))
          /\ [k \in 1..Len(all_data) |->
                << all_data[k].LogFile, all_data[k].RecipeIndex,
                   LitreTenths(all_data[k].Actual_Litre) >>] = KeysOfFiles(fi)
          /\ \A j, k \in 1..Len(all_data) :
                (j < k /\ all_data[j].LogFile = all_data[k].LogFile) =>
                   \A m \in j..k : all_data[m].LogFile = all_data[j].LogFile)

\* both files were parsed, each has a cycle, and the cycle of the file taken
\* first comes first
C17_Witness ==
    /\ pc = "files"
    /\ fi = 2
    /\ Len(all_data) = 2
    /\ all_data[1].LogFile = files[1]
    /\ all_data[2].LogFile = files[2]

\* one file with two cycles of different recipes, in the order of their End
\* events
C17_WitnessWithinFile ==
    /\ pc = "files"
    /\ fi = 1
    /\ Len(all_data) = 2
    /\ all_data[1].RecipeIndex # all_data[2].RecipeIndex

(***************************************************************************)
(* C18: once a cycle has been appended to the output list by an End event, *)
(* no later event of the file changes any field of it.  After the append   *)
(* current names a fresh empty dict, so no listed dict is ever the one     *)
(* current names.                                                          *)
(***************************************************************************)
C18_EmittedAreFrozen ==
    /\ [](pc = "read" => \A k \in 1..Len(store.refs) : store.refs[k] # store.ref)
    /\ [][(pc = "read" /\ pc' = "read") =>
              /\ Len(dispense_data') >= Len(dispense_data)
              /\ \A k \in 1..Len(dispense_data) :
                    dispense_data'[k] = dispense_data[k]
              /\ Len(dispense_data') > Len(dispense_data) =>
                    current' = EmptyDict]_vars

\* a cycle was emitted, then a Start event and a timing event were read: the
\* emitted cycle still has no Additives while the cycle in progress has some
C18_Witness ==
    /\ pc = "read"
    /\ Len(dispense_data) = 1
    /\ dispense_data[1].Additives = << >>
    /\ current # EmptyDict
    /\ current.Additives # << >>
    /\ LET ev == Events(LinesRead)
       IN  /\ Len(ev) = 4
           /\ ev[1].kind = "START"
           /\ ev[2].kind = "END"
           /\ ev[3].kind = "START"
           /\ ev[4].kind = "TIMING"

(***************************************************************************)
(* C19: within one cycle LogFile, StartTime and RecipeIndex are fixed by   *)
(* the Start event and unchanged by every later timing, progress and End   *)
(* event; a timing event changes only Hydra_ms and Additives, a progress   *)
(* event only Progress and Actual_Litre, an End event at most              *)
(* Actual_Litre.  For a line: the cycle after it, in current or emitted by *)
(* it, differs from current before it only in the fields of the events the *)
(* line has.                                                               *)
(***************************************************************************)
C19_FieldsPerEvent ==
    [][(pc = "read" /\ pos' = pos + 1) =>
          LET line == disk[log_file][pos + 1]
              emits == Len(dispense_data') > Len(dispense_data)
              after == IF emits THEN dispense_data'[Len(dispense_data')]
                       ELSE current'
          IN  /\ (~line.blank /\ line.start # NoMatch) =>
                    /\ after.LogFile = log_file
                    /\ after.RecipeIndex = line.start[1].recipe
                    /\ IF line.start[1].tilde
                       THEN IsTrimOf(after.StartTime, line.start[1].prefix)
                       ELSE after.StartTime = << >>
              /\ (current # EmptyDict /\ (line.blank \/ line.start = NoMatch)) =>
                    /\ after.LogFile = current.LogFile
                    /\ after.StartTime = current.StartTime
                    /\ after.RecipeIndex = current.RecipeIndex
                    /\ line.timing = NoMatch =>
                          /\ after.Hydra_ms = current.Hydra_ms
                          /\ after.Additives = current.Additives
                    /\ line.prog = NoMatch => after.Progress = current.Progress
                    /\ (line.prog = NoMatch
                          /\ (line.end = NoMatch \/ current.Actual_Litre # << >>)) =>
                          after.Actual_Litre = current.Actual_Litre]_vars

\* a timing line was read in a cycle that had its Progress: the Progress is
\* still there next to the Additives of the timing line
C19_Witness ==
    /\ pc = "read"
    /\ pos = 2
    /\ disk[log_file][2].timing # NoMatch
    /\ disk[log_file][2].prog = NoMatch
    /\ disk[log_file][2].start = NoMatch
    /\ current # EmptyDict
    /\ current.Progress # << >>
    /\ current.Additives # << >>

\* an End line was read in a cycle that had its Progress and its Additives:
\* the emitted cycle has them
C19_WitnessEnd ==
    /\ pc = "read"
    /\ pos = 3
    /\ disk[log_file][3] \in { l \in Lines : OnlyEvent(l, "END") = l }
    /\ Len(dispense_data) = 1
    /\ dispense_data[1].Progress # << >>
    /\ dispense_data[1].Additives # << >>

=============================================================================
